---- MODULE Spec2Model ----
(***************************************************************************)
(* Replay memory of dqn/replay_memory.py: the ring buffer ReplayUniform    *)
(* (add, getState, sample, save, load) and the wrapper ReplayRanked.       *)
(*                                                                         *)
(* One store object is modelled; `kind` says of which class it is.  Slots  *)
(* are numbered from 0 as in the code.  A frame is a record of its shape   *)
(* and an identifier standing for its pixels.  Python lists are 1-based    *)
(* sequences.  `adds`, `recent` and `writer` are history variables: they   *)
(* record the calls made, the code never reads them.                       *)
(***************************************************************************)
EXTENDS Integers, Sequences, FiniteSets, TLC

\* ---------------------------------------------------------------- bounds
MaxMemorySize == 4
MaxHistoryLength == 2
MaxBatchSize == 2
MaxAdds == 6
MaxStores == 3
MaxSavedSize == 2
MaxLiveSize == 3
MaxIndex == 5
ScreenHeight == 2
ScreenWidth == 4

\* ---------------------------------------------------------------- inputs
Pixels == {"p", "q"}
PreviousPixels == {"o"}
Formats == {"NCHW", "NHWC"}
GoodShape == <<ScreenHeight, ScreenWidth>>
BadShapes == {<<ScreenWidth, ScreenHeight>>, <<ScreenHeight>>}

\* what the environment answers to a step: the action taken, its reward and
\* the pixels of the frame that follows (the three differ from each other, so
\* that an exchange of two columns is visible)
Outcomes == { [action |-> 3, reward |-> 10, pix |-> "p"],
              [action |-> 7, reward |-> 20, pix |-> "q"] }

\* arguments (previous, reward, action, next, terminal) of one add call
Arguments(outcomes, shapes, flags) ==
  { [previous |-> [shape |-> GoodShape, pix |-> pv], reward |-> o.reward,
     action |-> o.action, next |-> [shape |-> sh, pix |-> o.pix], terminal |-> t] :
       pv \in PreviousPixels, o \in outcomes, sh \in shapes, t \in flags }

GoodArguments == Arguments(Outcomes, {GoodShape}, BOOLEAN)
BadArguments == Arguments({o \in Outcomes : o.action = 7}, BadShapes, {TRUE})

\* configurations (config.memory_size, .history_length, .batch_size, .cnn_format)
Configs ==
  { c \in [memory_size : 1 .. MaxMemorySize, history_length : 1 .. MaxHistoryLength,
           batch_size : 1 .. MaxBatchSize, cnn_format : Formats] :
      c.memory_size + c.history_length * c.batch_size <= MaxMemorySize + 2 }

VARIABLES
  kind,            \* "uniform" (ReplayUniform) or "ranked" (ReplayRanked)
  memory_size, history_length, batch_size, cnn_format, dims,
  actions, rewards, screens, terminals,
  count, current,
  prestates, poststates,
  pc, indexes, index,      \* position in sample and its locals
  ret,                     \* outcome of the last call
  disk,                    \* files of model_dir
  exp,                     \* the external sampler: experiences passed to store
  adds, recent, writer     \* history variables

config == <<kind, memory_size, history_length, batch_size, cnn_format, dims>>
arrays == <<actions, rewards, screens, terminals>>
scratch == <<prestates, poststates>>
locals == <<pc, indexes, index>>
history == <<adds, recent, writer>>
vars == <<config, arrays, count, current, scratch, locals, ret, disk, exp, history>>

Max(a, b) == IF a >= b THEN a ELSE b
Min(a, b) == IF a <= b THEN a ELSE b

Slots == 0 .. (memory_size - 1)

\* values of the storage dtypes
AsUint8(v) == v % 256

\* outcome of a call
Returned(op, args, value, accepted) ==
  [op |-> op, args |-> args, error |-> "none", value |-> value, indexes |-> accepted]
Raised(op, args, error) ==
  [op |-> op, args |-> args, error |-> error, value |-> <<>>, indexes |-> <<>>]
Running(op) ==
  [op |-> op, args |-> <<>>, error |-> "running", value |-> <<>>, indexes |-> <<>>]

\* an attribute the constructor does not set
Absent == "absent"

\* ------------------------------------------------------------ construction
\* np.empty: the content of a fresh array is whatever the allocator hands
\* out; the flags are free per slot, the frames of the store and of the
\* scratch buffers get one free fill value, actions and rewards are zero.
EmptyFlags(n) == [0 .. (n - 1) -> BOOLEAN]
EmptyFill(n, values) == { [s \in 0 .. (n - 1) |-> v] : v \in values }
EmptyBatch(n, h, values) ==
  { [k \in 0 .. (n - 1) |-> [j \in 1 .. h |-> v]] : v \in values }

NoCall == Returned("init", <<>>, <<>>, <<>>)

Construct(c) ==
  /\ kind = "uniform"
  /\ memory_size = c.memory_size
  /\ history_length = c.history_length
  /\ batch_size = c.batch_size
  /\ cnn_format = c.cnn_format
  /\ dims = GoodShape
  /\ actions \in EmptyFill(memory_size, {0})
  /\ rewards \in EmptyFill(memory_size, {0})
  /\ screens \in EmptyFill(memory_size, Pixels)
  /\ terminals \in EmptyFlags(memory_size)
  /\ count = 0
  /\ current = 0
  /\ prestates \in EmptyBatch(batch_size, history_length, {screens[0]})
  /\ poststates = prestates
  /\ pc = "idle" /\ indexes = <<>> /\ index = 0
  /\ ret = NoCall
  /\ disk = <<>>
  /\ exp = <<>>
  /\ adds = 0 /\ recent = <<>>
  /\ writer = [s \in Slots |-> 0]

InitUniform == \E c \in Configs : Construct(c)

\* ReplayRanked.__init__ sets neither memory_size nor batch_size, and
\* allocates no arrays; the external sampler starts empty
InitRanked ==
  /\ kind = "ranked"
  /\ memory_size = Absent /\ batch_size = Absent
  /\ history_length \in 0 .. MaxHistoryLength
  /\ cnn_format \in Formats
  /\ dims = GoodShape
  /\ actions = Absent /\ rewards = Absent /\ screens = Absent /\ terminals = Absent
  /\ count = 0
  /\ current = 0
  /\ prestates = Absent /\ poststates = Absent
  /\ pc = "idle" /\ indexes = <<>> /\ index = 0
  /\ ret = NoCall
  /\ disk = <<>>
  /\ exp = <<>>
  /\ adds = 0 /\ recent = <<>> /\ writer = <<>>

Init == InitUniform \/ InitRanked

\* -------------------------------------------------------- ReplayUniform.add
ShapeMatches(next) == next.shape = dims

AddCount_NoMax(cnt, cur) == cur + 1
AddCount(cnt, cur) == Max(cnt, cur + 1)

AddCurrent_WrapLate(cur) == (cur + 1) % (memory_size + 1)
AddCurrent(cur) == (cur + 1) % memory_size

StoreAt_NextSlot(array, slot, v) ==
  [array EXCEPT ![(slot + 1) % memory_size] = v]

StoreAt_AlsoNext(array, slot, v) ==
  [array EXCEPT ![slot] = v, ![(slot + 1) % memory_size] = v]

StoreAt(array, slot, v) == [array EXCEPT ![slot] = v]

\* what the four columns keep of the arguments
Stored(in) == [action |-> in.action, reward |-> in.reward,
               pix |-> in.next.pix, terminal |-> in.terminal]

Remember(log, in, n) ==
  LET l == Append(log, Stored(in))
  IN IF Len(l) > n THEN Tail(l) ELSE l

Add(in) ==
  /\ kind = "uniform" /\ pc = "idle" /\ adds < MaxAdds
  /\ ShapeMatches(in.next)
  /\ actions' = StoreAt(actions, current, AsUint8(in.action))
  /\ rewards' = StoreAt(rewards, current, in.reward)
  /\ screens' = StoreAt(screens, current, in.next.pix)
  /\ terminals' = StoreAt(terminals, current, in.terminal)
  /\ count' = AddCount(count, current)
  /\ current' = AddCurrent(current)
  /\ ret' = Returned("add", in, <<>>, <<>>)
  /\ adds' = adds + 1
  /\ recent' = Remember(recent, in, memory_size)
  /\ writer' = [writer EXCEPT ![current] = adds + 1]
  /\ UNCHANGED <<config, scratch, locals, disk, exp>>

AddShapeError_WritesFirst(in) ==
  /\ kind = "uniform" /\ pc = "idle"
  /\ ~ShapeMatches(in.next)
  /\ actions' = StoreAt(actions, current, AsUint8(in.action))
  /\ rewards' = StoreAt(rewards, current, in.reward)
  /\ ret' = Raised("add", in, "AssertionError")
  /\ UNCHANGED <<config, screens, terminals, count, current, scratch, locals,
                 disk, exp, history>>

AddShapeError(in) ==
  /\ kind = "uniform" /\ pc = "idle"
  /\ ~ShapeMatches(in.next)
  /\ ret' = Raised("add", in, "AssertionError")
  /\ UNCHANGED <<config, arrays, count, current, scratch, locals, disk, exp, history>>

\* --------------------------------------------------------- ReplayRanked.add
Experience(in) == <<in.previous, in.action, in.reward, in.next, in.terminal>>

\* exp.store(experience) of the external sampler
ExpStore(store, experience) == Append(store, experience)

\* the last statement reads self.memory_size, which ReplayRanked never sets
RankedAdd(in) ==
  /\ kind = "ranked" /\ pc = "idle" /\ adds < MaxStores
  /\ ShapeMatches(in.next)
  /\ exp' = ExpStore(exp, Experience(in))
  /\ count' = AddCount(count, current)
  /\ IF memory_size = Absent
       THEN /\ current' = current
            /\ ret' = Raised("add", in, "AttributeError")
       ELSE /\ current' = AddCurrent(current)
            /\ ret' = Returned("add", in, <<>>, <<>>)
  /\ adds' = adds + 1
  /\ UNCHANGED <<config, arrays, scratch, locals, disk, recent, writer>>

RankedAddShapeError(in) ==
  /\ kind = "ranked" /\ pc = "idle"
  /\ ~ShapeMatches(in.next)
  /\ ret' = Raised("add", in, "AssertionError")
  /\ UNCHANGED <<config, arrays, count, current, scratch, locals, disk, exp, history>>

\* ------------------------------------------------------ ReplayRanked.sample
RankedSampleAssertFails ==
  /\ kind = "ranked" /\ pc = "idle"
  /\ ~(count > history_length)
  /\ ret' = Raised("sample", <<>>, "AssertionError")
  /\ UNCHANGED <<config, arrays, count, current, scratch, locals, disk, exp, history>>

\* the six names of line 166 are unpacked from an empty list: ValueError,
\* before the external sampler is asked for anything
RankedSampleUnpackFails ==
  /\ kind = "ranked" /\ pc = "idle"
  /\ count > history_length
  /\ ret' = Raised("sample", <<>>, "ValueError")
  /\ UNCHANGED <<config, arrays, count, current, scratch, locals, disk, exp, history>>

\* --------------------------------------------------- ReplayUniform.getState
\* array[a:b] of Python for an array of n rows, as a sequence
PySlice(array, n, a, b) ==
  LET lo == IF a < 0 THEN Max(a + n, 0) ELSE Min(a, n)
      hi == IF b < 0 THEN Max(b + n, 0) ELSE Min(b, n)
  IN [j \in 1 .. Max(hi - lo, 0) |-> array[lo + j - 1]]

\* array[list] of Python, as a sequence
PyGather_Shifted(array, list) == [j \in 1 .. Len(list) |-> array[list[j] - 1]]
PyGather(array, list) == [j \in 1 .. Len(list) |-> array[list[j]]]

\* reversed(range(n)) of Python
ReversedRange(n) == [j \in 1 .. n |-> n - j]

Normalize(i) == i % count

WrappedIndexes_ModSize(i) ==
  [j \in 1 .. history_length |->
     (i - ReversedRange(history_length)[j]) % memory_size]

WrappedIndexes(i) ==
  [j \in 1 .. history_length |-> (i - ReversedRange(history_length)[j]) % count]

getState_ShiftedSlice(i) ==
  LET idx == Normalize(i)
  IN IF idx >= history_length - 1
       THEN PySlice(screens, memory_size, idx - history_length, idx)
       ELSE PyGather(screens, WrappedIndexes(idx))

getState(i) ==
  LET idx == Normalize(i)
  IN IF idx >= history_length - 1
       THEN PySlice(screens, memory_size, idx - (history_length - 1), idx + 1)
       ELSE PyGather(screens, WrappedIndexes(idx))

\* ----------------------------------------------------- ReplayUniform.sample
EnoughData_NonStrict == count >= history_length
EnoughData == count > history_length

DrawRange == history_length .. (count - 1)

WrapsOverCurrent_Strict(i) == i > current /\ i - history_length < current
WrapsOverCurrent_Inclusive(i) == i >= current /\ i - history_length <= current
WrapsOverCurrent_LateStart(i) == i >= current /\ i - history_length + 1 < current
WrapsOverCurrent(i) == i >= current /\ i - history_length < current

WrapsOverEpisodeEnd_ShortWindow(i) ==
  LET window == PySlice(terminals, memory_size, i - history_length, i - 1)
  IN \E j \in 1 .. Len(window) : window[j]

WrapsOverEpisodeEnd(i) ==
  LET window == PySlice(terminals, memory_size, i - history_length, i)
  IN \E j \in 1 .. Len(window) : window[j]

\* np.transpose(array, perm): the axes of the result are the axes perm names
Transpose(array, perm) ==
  [shape |-> [a \in 1 .. Len(perm) |-> array.shape[perm[a] + 1]],
   axes |-> [a \in 1 .. Len(perm) |-> array.axes[perm[a] + 1]],
   data |-> array.data]

\* a scratch buffer as allocated: (batch_size, history_length) + dims
Scratch(data) ==
  [shape |-> <<batch_size, history_length>> \o dims,
   axes |-> <<"batch", "history", "height", "width">>,
   data |-> data]

Layout(data) ==
  IF cnn_format = "NHWC" THEN Transpose(Scratch(data), <<0, 2, 3, 1>>)
                         ELSE Scratch(data)

Batch ==
  [prestates |-> Layout(prestates),
   actions |-> PyGather(actions, indexes),
   rewards |-> PyGather(rewards, indexes),
   poststates |-> Layout(poststates),
   terminals |-> PyGather(terminals, indexes)]

LoopDone_Early == ~(Len(indexes) < batch_size - 1)
LoopDone == ~(Len(indexes) < batch_size)

SampleAssertFails ==
  /\ kind = "uniform" /\ pc = "idle"
  /\ ~EnoughData
  /\ ret' = Raised("sample", <<>>, "AssertionError")
  /\ UNCHANGED <<config, arrays, count, current, scratch, locals, disk, exp, history>>

SampleBegin ==
  /\ kind = "uniform" /\ pc = "idle"
  /\ EnoughData
  /\ pc' = "loop" /\ indexes' = <<>> /\ index' = 0
  /\ ret' = Running("sample")
  /\ UNCHANGED <<config, arrays, count, current, scratch, disk, exp, history>>

SampleReject(i) ==
  /\ pc = "loop" /\ ~LoopDone
  /\ WrapsOverCurrent(i) \/ WrapsOverEpisodeEnd(i)
  /\ index' = i
  /\ UNCHANGED <<config, arrays, count, current, scratch, pc, indexes, ret,
                 disk, exp, history>>

SampleAccept_WritesStore(i) ==
  /\ pc = "loop" /\ ~LoopDone
  /\ ~WrapsOverCurrent(i) /\ ~WrapsOverEpisodeEnd(i)
  /\ index' = i
  /\ prestates' = StoreAt(prestates, Len(indexes), getState(i - 1))
  /\ poststates' = StoreAt(poststates, Len(indexes), getState(i))
  /\ screens' = StoreAt(screens, Len(indexes), screens[i])
  /\ indexes' = Append(indexes, i)
  /\ UNCHANGED <<config, actions, rewards, terminals, count, current, pc, ret,
                 disk, exp, history>>

SampleAccept(i) ==
  /\ pc = "loop" /\ ~LoopDone
  /\ ~WrapsOverCurrent(i) /\ ~WrapsOverEpisodeEnd(i)
  /\ index' = i
  /\ prestates' = StoreAt(prestates, Len(indexes), getState(i - 1))
  /\ poststates' = StoreAt(poststates, Len(indexes), getState(i))
  /\ indexes' = Append(indexes, i)
  /\ UNCHANGED <<config, arrays, count, current, pc, ret, disk, exp, history>>

SampleReturn ==
  /\ pc = "loop" /\ LoopDone
  /\ ret' = Returned("sample", <<>>, Batch, indexes)
  /\ pc' = "idle" /\ indexes' = <<>> /\ index' = 0
  /\ UNCHANGED <<config, arrays, count, current, scratch, disk, exp, history>>

Next ==
  \/ \E in \in GoodArguments : Add(in)
  \/ \E in \in BadArguments : AddShapeError(in)
  \/ \E in \in GoodArguments : RankedAdd(in)
  \/ \E in \in BadArguments : RankedAddShapeError(in)
  \/ RankedSampleAssertFails
  \/ RankedSampleUnpackFails
  \/ SampleAssertFails
  \/ SampleBegin
  \/ \E i \in DrawRange : SampleReject(i)
  \/ \E i \in DrawRange : SampleAccept(i)
  \/ SampleReturn

Spec == Init /\ [][Next]_vars

\* ------------------------------------------- ReplayUniform.save and .load
FileNames == <<"actions", "rewards", "screens", "terminals", "prestates", "poststates">>
FileArrays == <<actions, rewards, screens, terminals, prestates, poststates>>

\* the helpers of dqn/utils.py: one file per array under model_dir
save_npy(files, array, path) ==
  [f \in DOMAIN files \cup {path} |-> IF f = path THEN array ELSE files[f]]
load_npy(files, path) == files[path]
Readable(files, path) == path \in DOMAIN files

RECURSIVE SaveAll(_, _)
SaveAll(files, n) ==
  IF n = 0 THEN files
  ELSE save_npy(SaveAll(files, n - 1), FileArrays[n], FileNames[n])

Save ==
  /\ kind = "uniform" /\ pc = "idle"
  /\ disk' = SaveAll(disk, Len(FileNames))
  /\ ret' = Returned("save", <<>>, <<>>, <<>>)
  /\ UNCHANGED <<config, arrays, count, current, scratch, locals, exp, history>>

\* each file is read into the loop variable `array`, which is rebound and
\* dropped: no attribute of the store is assigned
Load ==
  /\ kind = "uniform" /\ pc = "idle"
  /\ \A n \in 1 .. Len(FileNames) : Readable(disk, FileNames[n])
  /\ LET array == [n \in 1 .. Len(FileNames) |-> load_npy(disk, FileNames[n])]
     IN ret' = Returned("load", <<>>, <<>>, <<>>)
  /\ UNCHANGED <<config, arrays, count, current, scratch, locals, disk, exp, history>>

LoadMissing ==
  /\ kind = "uniform" /\ pc = "idle"
  /\ \E n \in 1 .. Len(FileNames) : ~Readable(disk, FileNames[n])
  /\ ret' = Raised("load", <<>>, "IOError")
  /\ UNCHANGED <<config, arrays, count, current, scratch, locals, disk, exp, history>>

\* a new ReplayUniform on the same configuration and model directory
Reconstruct ==
  /\ kind = "uniform" /\ pc = "idle" /\ adds > 0
  /\ actions' \in EmptyFill(memory_size, {0})
  /\ rewards' \in EmptyFill(memory_size, {0})
  /\ screens' \in EmptyFill(memory_size, Pixels)
  /\ terminals' \in EmptyFlags(memory_size)
  /\ count' = 0
  /\ current' = 0
  /\ prestates' \in EmptyBatch(batch_size, history_length, {screens'[0]})
  /\ poststates' = prestates'
  /\ ret' = NoCall
  /\ adds' = 0 /\ recent' = <<>>
  /\ writer' = [s \in Slots |-> 0]
  /\ UNCHANGED <<config, locals, disk, exp>>

InitPersist ==
  \E c \in Configs :
    /\ c.memory_size <= MaxSavedSize
    /\ c.history_length = 1 /\ c.batch_size = 1 /\ c.cnn_format = "NCHW"
    /\ Construct(c)

NextPersist ==
  \/ \E in \in GoodArguments : Add(in)
  \/ Save
  \/ Load
  \/ LoadMissing
  \/ Reconstruct

SpecPersist == InitPersist /\ [][NextPersist]_vars

\* ------------------------------------------------- the scenario of the spec
ScenarioTerminals == <<FALSE, FALSE, TRUE, FALSE, FALSE>>

InitScenario ==
  \E f \in Formats :
    Construct([memory_size |-> Len(ScenarioTerminals), history_length |-> 2,
               batch_size |-> 1, cnn_format |-> f])

ScenarioAdd ==
  /\ adds < Len(ScenarioTerminals)
  /\ \E in \in GoodArguments :
       in.terminal = ScenarioTerminals[adds + 1] /\ Add(in)

NextScenario ==
  \/ ScenarioAdd
  \/ SampleAssertFails
  \/ SampleBegin
  \/ \E i \in DrawRange : SampleReject(i)
  \/ \E i \in DrawRange : SampleAccept(i)
  \/ SampleReturn

SpecScenario == InitScenario /\ [][NextScenario]_vars

\* ------------------------------------------------- direct getState calls
GetStateIndexes == (0 - MaxIndex) .. MaxIndex

GetStateCall(i) ==
  /\ kind = "uniform" /\ pc = "idle"
  /\ count > 0
  /\ ret' = Returned("getState", i, getState(i), <<>>)
  /\ UNCHANGED <<config, arrays, count, current, scratch, locals, disk, exp, history>>

GetStateEmpty(i) ==
  /\ kind = "uniform" /\ pc = "idle"
  /\ ~(count > 0)
  /\ ret' = Raised("getState", i, "AssertionError")
  /\ UNCHANGED <<config, arrays, count, current, scratch, locals, disk, exp, history>>

InitGetState ==
  \E c \in Configs :
    /\ c.batch_size = 1 /\ c.cnn_format = "NCHW"
    /\ Construct(c)

NextGetState ==
  \/ \E in \in GoodArguments : Add(in)
  \/ \E i \in GetStateIndexes : GetStateCall(i)
  \/ \E i \in GetStateIndexes : GetStateEmpty(i)

SpecGetState == InitGetState /\ [][NextGetState]_vars

\* ------------------------------------------- the rejection loop, fair draws
\* random.randint draws every index of the range again and again, so an
\* index that passes both tests is eventually drawn; the interpreter does
\* not stop before the return statement
InitLive ==
  \E c \in Configs :
    /\ c.memory_size <= MaxLiveSize /\ c.cnn_format = "NCHW"
    /\ Construct(c)

NextLive ==
  \/ \E in \in GoodArguments : Add(in)
  \/ SampleAssertFails
  \/ SampleBegin
  \/ \E i \in DrawRange : SampleReject(i)
  \/ \E i \in DrawRange : SampleAccept(i)
  \/ SampleReturn

FairDraws ==
  /\ WF_vars(\E i \in DrawRange : SampleAccept(i))
  /\ WF_vars(SampleReturn)

SpecLive == InitLive /\ [][NextLive]_vars /\ FairDraws

\* ------------------------------------------------------------------ claims
Uniform == kind = "uniform"
AddStep == Uniform /\ adds' = adds + 1

\* C1: ring invariant of ReplayUniform: after every add 0 <= count <=
\* memory_size and 0 <= current < memory_size; count never decreases, stays
\* at memory_size once it got there, and every add moves current to the next
\* slot cyclically.
C1_RingInvariant ==
  /\ [](Uniform => /\ 0 <= count /\ count <= memory_size
                   /\ 0 <= current /\ current < memory_size)
  /\ [][Uniform => /\ count' >= count
                   /\ (count = memory_size => count' = memory_size)
                   /\ (AddStep => current' = (current + 1) % memory_size)]_vars

C1_Witness ==
  /\ Uniform /\ count = memory_size /\ adds > memory_size + 1
  /\ memory_size > 1 /\ current = 1

\* C2: overwrite correctness: after n >= 1 adds the store holds exactly the
\* min(n, memory_size) most recently added transitions, the k-th most recent
\* one at slot (current - k) mod memory_size.
SlotContent(s) == [action |-> actions[s], reward |-> rewards[s],
                   pix |-> screens[s], terminal |-> terminals[s]]

C2_OverwriteCorrectness ==
  (Uniform /\ adds >= 1) =>
    /\ count = Min(adds, memory_size)
    /\ Len(recent) = count
    /\ \A k \in 1 .. count :
         SlotContent((current - k) % memory_size) = recent[Len(recent) - k + 1]

C2_Witness ==
  /\ Uniform /\ adds > memory_size /\ memory_size >= 3
  /\ recent[1].pix # recent[2].pix
  /\ recent[Len(recent)].terminal /\ ~recent[1].terminal

\* C3: sampling exclusion: every index accepted into a batch has no terminal
\* flag in slots index-history_length .. index-1 (the slot at index may be
\* terminal), and its window does not straddle the write cursor.
AcceptedIndexes == IF pc = "loop" THEN indexes ELSE ret.indexes

C3_SamplingExclusion ==
  Uniform =>
    \A k \in 1 .. Len(AcceptedIndexes) :
      LET i == AcceptedIndexes[k]
      IN /\ \A j \in (i - history_length) .. (i - 1) : ~terminals[j]
         /\ ~(i >= current /\ i - history_length < current)

SampleReturned == Uniform /\ ret.op = "sample" /\ ret.error = "none"

C3_Witness ==
  /\ SampleReturned /\ adds > memory_size /\ current > 0
  /\ history_length = 2
  /\ terminals[ret.indexes[1]]

\* the store of the scenario: memory_size=5, history_length=2, batch_size=1
\* after five adds with terminal flags F,F,T,F,F
ScenarioState ==
  /\ Uniform /\ memory_size = 5 /\ history_length = 2 /\ batch_size = 1
  /\ adds = 5
  /\ \A s \in Slots : terminals[s] = ScenarioTerminals[s + 1]

\* C4 as claimed: in the scenario sample accepts neither index 2 nor index 3.
C4_Original ==
  ScenarioState => \A k \in 1 .. Len(AcceptedIndexes) : AcceptedIndexes[k] \notin {2, 3}

\* C4: in the scenario sample accepts neither index 3 nor index 4: both
\* windows, slots 1..2 and slots 2..3, hold the terminal flag of slot 2.
C4_ScenarioExclusion ==
  ScenarioState => \A k \in 1 .. Len(AcceptedIndexes) : AcceptedIndexes[k] \notin {3, 4}

C4_Witness ==
  /\ ScenarioState /\ pc = "loop" /\ index = 3 /\ indexes = <<>>

\* C5 as claimed: in the scenario a draw of index 4 passes both rejection tests.
C5_Original ==
  ScenarioState => ~WrapsOverCurrent(4) /\ ~WrapsOverEpisodeEnd(4)

\* C5: in the scenario index 2 is admissible: a draw of index 2 passes both
\* rejection tests and a returned batch is built from index 2; a draw of
\* index 4 is rejected by the terminal test.
C5_ScenarioAdmission ==
  ScenarioState =>
    /\ ~WrapsOverCurrent(2) /\ ~WrapsOverEpisodeEnd(2)
    /\ WrapsOverEpisodeEnd(4)
    /\ SampleReturned =>
         /\ ret.indexes = <<2>>
         /\ ret.value.prestates.data[0] = <<screens[0], screens[1]>>
         /\ ret.value.poststates.data[0] = <<screens[1], screens[2]>>
         /\ ret.value.actions = <<actions[2]>>
         /\ ret.value.rewards = <<rewards[2]>>
         /\ ret.value.terminals = <<TRUE>>

C5_Witness ==
  /\ ScenarioState /\ SampleReturned /\ ret.indexes = <<2>>
  /\ screens[0] # screens[1]

\* C6: sample precondition: sample called with count <= history_length fails
\* with an AssertionError before drawing an index and leaves the arrays,
\* count, current and the scratch buffers unchanged; it proceeds only when
\* count > history_length.
SampleCall == Uniform /\ pc = "idle" /\ ret'.op = "sample"

C6_SamplePrecondition ==
  [][SampleCall =>
       IF count <= history_length
         THEN /\ ret'.error = "AssertionError"
              /\ UNCHANGED <<arrays, count, current, scratch, locals>>
         ELSE ret'.error = "running" /\ pc' = "loop"]_vars

C6_Witness ==
  /\ Uniform /\ ret.op = "sample" /\ ret.error = "AssertionError"
  /\ count = history_length /\ pc = "idle"

\* C7: an add whose next frame has not the configured shape fails with an
\* error and leaves actions, rewards, screens, terminals, count and current
\* as they were; for ReplayRanked the external sampler's store is not called.
BadShapeAdd == ret'.op = "add" /\ ret'.args.next.shape # dims

C7_ShapeErrorLeavesBuffer ==
  [][BadShapeAdd =>
       /\ ret'.error = "AssertionError"
       /\ UNCHANGED <<arrays, count, current, exp>>]_vars

C7_Witness ==
  /\ Uniform /\ ret.op = "add" /\ ret.error = "AssertionError"
  /\ ret.args.next.shape # dims
  /\ count >= 1 /\ actions[current] # ret.args.action

\* C8 as claimed: load restores what save wrote: after a load the four
\* storage arrays equal the saved ones.
C8_RoundTrip ==
  (Uniform /\ ret.op = "load" /\ ret.error = "none") =>
    /\ actions = disk["actions"]
    /\ rewards = disk["rewards"]
    /\ screens = disk["screens"]
    /\ terminals = disk["terminals"]

\* C9: batch size invariant: a sample call that returns has accepted exactly
\* batch_size indices and returns batch_size entries per field; each prestate
\* and poststate entry is a stack of history_length frames, the history axis
\* second by default and last for cnn_format "NHWC".
StackShape ==
  IF cnn_format = "NHWC"
    THEN <<batch_size, dims[1], dims[2], history_length>>
    ELSE <<batch_size, history_length, dims[1], dims[2]>>

HistoryAxis == IF cnn_format = "NHWC" THEN 4 ELSE 2

WellShaped(stack) ==
  /\ stack.shape = StackShape
  /\ stack.axes[1] = "batch" /\ stack.axes[HistoryAxis] = "history"
  /\ DOMAIN stack.data = 0 .. (batch_size - 1)
  /\ \A k \in DOMAIN stack.data : Len(stack.data[k]) = history_length

C9_BatchSize ==
  SampleReturned =>
    /\ Len(ret.indexes) = batch_size
    /\ Len(ret.value.actions) = batch_size
    /\ Len(ret.value.rewards) = batch_size
    /\ Len(ret.value.terminals) = batch_size
    /\ WellShaped(ret.value.prestates)
    /\ WellShaped(ret.value.poststates)

C9_Witness ==
  /\ SampleReturned /\ batch_size = 2 /\ cnn_format = "NHWC"
  /\ ret.indexes[1] # ret.indexes[2]

\* C10: window correctness of getState: for history_length - 1 <= i < count,
\* getState(i) is the frames of slots i-history_length+1 .. i in increasing
\* slot order.
C10_WindowCorrectness ==
  (Uniform /\ count > 0) =>
    \A i \in (history_length - 1) .. (count - 1) :
      getState(i) = [j \in 1 .. history_length |-> screens[i - history_length + j]]

C10_Witness ==
  /\ SampleReturned /\ history_length = 2
  /\ LET i == ret.indexes[1]
     IN /\ screens[i] # screens[i - 1]
        /\ poststates[0] = <<screens[i - 1], screens[i]>>
        /\ prestates[0] = <<screens[i - 2], screens[i - 1]>>

\* C11: liveness of the rejection loop: with count > history_length a
\* running sample eventually returns, under fair draws, if some index of
\* history_length .. count-1 passes the cursor test and the terminal test;
\* if none does, sample stays in its loop and raises no error.
PassesBothTests(i) ==
  /\ ~(i >= current /\ i - history_length < current)
  /\ \A j \in (i - history_length) .. (i - 1) : ~terminals[j]

SomeAdmissible == \E i \in history_length .. (count - 1) : PassesBothTests(i)

InLoop == Uniform /\ pc = "loop"

C11_RejectionLoopLiveness ==
  /\ (InLoop /\ SomeAdmissible) ~> SampleReturned
  /\ [][(InLoop /\ ~SomeAdmissible) => (pc' = "loop" /\ ret'.error = "running")]_vars

C11_Witness ==
  /\ InLoop /\ ~SomeAdmissible /\ index >= history_length
  /\ \A s \in 0 .. (count - 1) : ~terminals[s]

Ranked == kind = "ranked"

\* C12 as claimed: a ReplayRanked.add with a frame of the configured shape
\* completes without error, has passed its tuple to the external sampler
\* exactly once, and has advanced count and current as ReplayUniform.add does.
C12_RankedAddBookkeeping ==
  (Ranked /\ ret.op = "add" /\ ret.args.next.shape = dims) =>
    /\ ret.error = "none"
    /\ Len(exp) = adds
    /\ count >= 1

\* C13 as claimed: a ReplayRanked.sample called with count > history_length
\* returns the seven fields prestates, actions, rewards, poststates,
\* terminals, weights, indices.
C13_RankedSampleResult ==
  (Ranked /\ ret.op = "sample" /\ count > history_length) =>
    /\ ret.error = "none"
    /\ Len(ret.value) = 7

\* C14: batch alignment: at position k of a returned batch, with accepted
\* index i, prestates[k] is the frames of slots i-history_length .. i-1,
\* poststates[k] the frames of slots i-history_length+1 .. i, and actions[k],
\* rewards[k], terminals[k] are the values stored in slot i.
Frames(first, last) == [j \in 1 .. (last - first + 1) |-> screens[first + j - 1]]

C14_BatchAlignment ==
  SampleReturned =>
    \A k \in 1 .. Len(ret.indexes) :
      LET i == ret.indexes[k]
      IN /\ ret.value.prestates.data[k - 1] = Frames(i - history_length, i - 1)
         /\ ret.value.poststates.data[k - 1] = Frames(i - history_length + 1, i)
         /\ ret.value.actions[k] = actions[i]
         /\ ret.value.rewards[k] = rewards[i]
         /\ ret.value.terminals[k] = terminals[i]

C14_Witness ==
  /\ SampleReturned /\ batch_size = 2
  /\ actions[ret.indexes[1]] # actions[ret.indexes[2]]
  /\ screens[ret.indexes[1]] # screens[ret.indexes[1] - 1]

\* C15: chronological contiguity: for every accepted index i the slots
\* i-history_length .. i were written by history_length+1 consecutive add
\* calls in slot order, and none of them but possibly slot i is terminal.
C15_ChronologicalContiguity ==
  Uniform =>
    \A k \in 1 .. Len(AcceptedIndexes) :
      LET i == AcceptedIndexes[k]
      IN \A j \in (i - history_length) .. (i - 1) :
           /\ writer[j] >= 1
           /\ writer[j + 1] = writer[j] + 1
           /\ ~terminals[j]

C15_Witness ==
  /\ SampleReturned /\ adds > memory_size /\ history_length = 2
  /\ ret.indexes[1] > current
  /\ writer[ret.indexes[1]] < adds

\* C16: frame effect of add: a successful add writes slot `current` of the
\* four arrays and no other slot, leaves both scratch buffers as they were,
\* and stores the `previous` argument nowhere.
OtherSlotsKept(before, after) ==
  \A s \in Slots \ {current} : after[s] = before[s]

C16_AddFrameEffect ==
  [][AddStep =>
       /\ OtherSlotsKept(actions, actions') /\ OtherSlotsKept(rewards, rewards')
       /\ OtherSlotsKept(screens, screens') /\ OtherSlotsKept(terminals, terminals')
       /\ actions'[current] = ret'.args.action
       /\ rewards'[current] = ret'.args.reward
       /\ screens'[current] = ret'.args.next.pix
       /\ terminals'[current] = ret'.args.terminal
       /\ UNCHANGED scratch
       /\ \A s \in Slots : screens'[s] # ret'.args.previous.pix]_vars

C16_Witness ==
  /\ Uniform /\ ret.op = "add" /\ ret.error = "none"
  /\ adds > memory_size /\ memory_size >= 3
  /\ screens[(current - 1) % memory_size] # screens[current]
  /\ terminals[(current - 1) % memory_size] # terminals[current]

\* C17: wrapped window of getState: for count > 0 and any integer index,
\* with r the index modulo count, when r < history_length - 1 getState
\* returns history_length frames, those of slots (r - i) mod count for
\* i = history_length-1 down to 0, all of them below count.
C17_WrappedWindow ==
  (Uniform /\ ret.op = "getState" /\ ret.error = "none") =>
    LET r == ret.args % count
    IN r < history_length - 1 =>
         /\ Len(ret.value) = history_length
         /\ \A j \in 1 .. history_length :
              LET slot == (r - (history_length - j)) % count
              IN slot < count /\ ret.value[j] = screens[slot]

C17_Witness ==
  /\ Uniform /\ ret.op = "getState" /\ ret.error = "none"
  /\ ret.args < 0 /\ ret.args % count = 0
  /\ history_length = 2 /\ count >= 2 /\ count < memory_size
  /\ screens[count - 1] # screens[0]
  /\ ret.value = <<screens[count - 1], screens[0]>>

\* C18: exact cursor values: after n successful adds on a fresh store
\* count = min(n, memory_size) and current = n mod memory_size; so either
\* count = memory_size or current = count, and before the first wrap-around
\* the cursor test rejects no index of the draw range.
C18_ExactCursor ==
  Uniform =>
    /\ count = Min(adds, memory_size)
    /\ current = adds % memory_size
    /\ (count = memory_size \/ current = count)
    /\ adds < memory_size =>
         \A i \in history_length .. (count - 1) :
           ~(i >= current /\ i - history_length < current)

C18_Witness ==
  /\ InLoop /\ adds < memory_size
  /\ index >= history_length /\ indexes = <<index>>

\* C19: sample is read-only on the store: a sample call, whether it fails its
\* precondition, is running or returns, leaves actions, rewards, screens,
\* terminals, count and current unchanged.
SampleStep == Uniform /\ (pc = "loop" \/ ret'.op = "sample")

C19_SampleReadOnly ==
  [][SampleStep => UNCHANGED <<arrays, count, current>>]_vars

C19_Witness ==
  /\ SampleReturned /\ adds > memory_size /\ batch_size = 2
  /\ ret.indexes[1] = ret.indexes[2]
  /\ prestates[0] # poststates[0]

NoStoredTerminal == \A s \in 0 .. (count - 1) : ~terminals[s]

PassesCursorTest(i) == ~(i >= current /\ i - history_length < current)

\* C20 as claimed: for memory_size > history_length, in every state with
\* count > history_length and no stored terminal flag some index of
\* history_length .. count-1 passes the cursor test.
C20_Original ==
  (Uniform /\ memory_size > history_length /\ count > history_length
     /\ NoStoredTerminal) =>
    \E i \in history_length .. (count - 1) : PassesCursorTest(i)

\* C20: for memory_size > 2 * history_length, in every state with
\* count > history_length and no stored terminal flag some index of
\* history_length .. count-1 passes the cursor test, and a running sample
\* returns under fair draws.
C20_TerminalFreeSampling ==
  /\ []((Uniform /\ memory_size > 2 * history_length /\ count > history_length
           /\ NoStoredTerminal) =>
          \E i \in history_length .. (count - 1) : PassesCursorTest(i))
  /\ (InLoop /\ memory_size > 2 * history_length /\ NoStoredTerminal)
       ~> SampleReturned

C20_Witness ==
  /\ SampleReturned /\ memory_size > 2 * history_length
  /\ adds > memory_size /\ current = history_length
  /\ NoStoredTerminal

====
